---- MODULE Spec2Model ----
(***************************************************************************)
(* QA-agent backend (main.py: /ingest, DELETE /databases/{id}, /query),    *)
(* the Streamlit session (app.py) and the agent functions it calls         *)
(* (agent.py), modelled as one state machine over the shared disk.         *)
(*                                                                         *)
(* In Spec, SpecUI and SpecAgent requests are handled one at a time: every *)
(* action is one whole handler.  SpecRace runs the registry functions of   *)
(* overlapping requests statement by statement, and SpecHtml applies       *)
(* analyze_html_structure (zzz/zzz2.py) to bounded pages.                  *)
(* uuid4/timestamp names are fresh names: the n-th /ingest request         *)
(* generates db id n, persist directory n and the files <<n, k>>.          *)
(* The entry fields "name" and "created_at" are timestamps that no handler *)
(* reads back; an entry is modelled by id, persist_dir and source_html.    *)
(***************************************************************************)
EXTENDS Integers, FiniteSets, Sequences, TLC

\* ---- bounds ----
MaxIngests == 2
MaxCalls == 2
MaxElems == 2
MaxDocs == 1
MaxFaults == 1

\* ---- values ----
NoneDb == 0
DbIds == 1..MaxIngests
HtmlKinds == {"text", "empty", "binary"}
IngestFaults == {"none", "doc_open", "doc_copy", "html_open", "html_copy",
                 "mkdir", "chroma", "index_open", "index_dump"}
SaveFaults == {"none", "index_open", "index_dump"}
EmptyIndex == [i \in {} |-> 0]
NoAgentRes == [fn |-> "none", db_id |-> NoneDb, html |-> "None", ret |-> "none",
               search |-> FALSE, llm |-> FALSE]
NoHtml == [elems |-> <<>>, script |-> FALSE]
NoAnalysis == [fn |-> "none", hidden_elements |-> {}, conditional_visibility |-> {}]
NoneDone == [registered |-> {}, deleted |-> {}]
NoResp == [op |-> "none", status |-> 0, detail |-> "", db_id |-> NoneDb, persist_dir |-> 0]

VARIABLES
    projectsFile,   \* databases/projects.json: [kind, index]
    dirs,           \* persist directories that exist under databases/
    tempFiles,      \* files that exist in temp_data/
    storedFiles,    \* files that exist in stored_files/: name -> content kind
    nreq,           \* /ingest requests handled so far
    faultsLeft,     \* backend I/O calls that may still raise
    resp            \* the HTTP response of the last step, NoResp if it made no request

VARIABLES
    selected_db,    \* st.session_state.selected_db
    test_plan,      \* st.session_state.test_plan: "None", "empty", "cases", "malformed"
    phase2View,     \* what the Phase 2 tab rendered in the last run
    phase3View,     \* what the Phase 3 tab rendered in the last run
    agentRes,       \* the agent call of the last step: [fn, db_id, html, ret, search, llm]
    sessionDbs,     \* db ids returned to this session by a status-200 /ingest
    planOk          \* a generate_test_cases call of this session returned no error

VARIABLES
    calls,          \* registry updates in flight: {[op, db_id, pc, index]}
    done            \* db ids whose register / delete call has completed

VARIABLES
    html_page,      \* the page given to analyze_html_structure
    analysis        \* what analyze_html_structure found in it

backendVars == <<projectsFile, dirs, tempFiles, storedFiles, nreq, faultsLeft, resp>>
uiVars == <<selected_db, test_plan, phase2View, phase3View,
            agentRes, sessionDbs, planOk>>
sessionVars == <<selected_db, test_plan, phase2View, phase3View, sessionDbs, planOk>>
raceVars == <<calls, done>>
htmlVars == <<html_page, analysis>>
vars == <<projectsFile, dirs, tempFiles, storedFiles, nreq, faultsLeft, resp,
          selected_db, test_plan, phase2View, phase3View,
          agentRes, sessionDbs, planOk, calls, done, html_page, analysis>>

\* ------------------------------------------------------------------------
\* projects.json helpers
\* ------------------------------------------------------------------------
_load_projects_index(file) ==
    IF file.kind = "ok" THEN file.index ELSE EmptyIndex

\* open(..., "w") truncates before json.dump writes: a failing open leaves
\* the file alone, a failing dump leaves a file json.load cannot read.
_save_projects_index(file, index, fault) ==
    CASE fault = "index_open" -> file
      [] fault = "index_dump" -> [kind |-> "corrupt", index |-> EmptyIndex]
      [] OTHER -> [kind |-> "ok", index |-> index]

Put(index, key, value) ==
    [k \in DOMAIN index \cup {key} |-> IF k = key THEN value ELSE index[k]]

Pop(index, key) ==
    [k \in DOMAIN index \ {key} |-> index[k]]

\* variant: the index is not loaded before the new entry is written
register_db_entry_unloaded(file, db_id, persist_dir, source_html, fault) ==
    LET entry == [id |-> db_id, persist_dir |-> persist_dir, source_html |-> source_html]
    IN _save_projects_index(file, Put(EmptyIndex, db_id, entry), fault)

register_db_entry(file, db_id, persist_dir, source_html, fault) ==
    LET index == _load_projects_index(file)
        entry == [id |-> db_id, persist_dir |-> persist_dir, source_html |-> source_html]
    IN _save_projects_index(file, Put(index, db_id, entry), fault)

HasEntry(file, db_id) == db_id \in DOMAIN _load_projects_index(file)

get_db_entry(file, db_id) == _load_projects_index(file)[db_id]

\* variant: the index is cleared instead of popping one key
delete_db_entry_clear(file, db_id, fault) ==
    LET index == _load_projects_index(file)
    IN IF db_id \in DOMAIN index
       THEN _save_projects_index(file, EmptyIndex, fault)
       ELSE file

delete_db_entry(file, db_id, fault) ==
    LET index == _load_projects_index(file)
    IN IF db_id \in DOMAIN index
       THEN _save_projects_index(file, Pop(index, db_id), fault)
       ELSE file

\* ------------------------------------------------------------------------
\* POST /ingest
\* ------------------------------------------------------------------------
\* Input of one request: n support documents, docsLoad = the loader reads
\* at least one of them, the content kind of the HTML upload, the step that
\* raises (fault, failAt), the kind of a half-copied HTML file, and the
\* temp files whose os.remove raises in the finally block.
DocFault(in) == in.fault \in {"doc_open", "doc_copy"}
HtmlFault(in) == in.fault \in {"html_open", "html_copy"}

\* temp_paths: the documents whose save_file returned
TempPaths(in) == IF DocFault(in) THEN 1..(in.failAt - 1) ELSE 1..in.n

\* the documents save_file created on disk (open succeeded)
DocsWritten(in) ==
    TempPaths(in) \cup (IF in.fault = "doc_copy" THEN {in.failAt} ELSE {})

HtmlWritten(in) == ~DocFault(in) /\ in.fault # "html_open"
HtmlSaved(in) == ~DocFault(in) /\ ~HtmlFault(in)

\* load_documents skips a file whose loader raises
load_documents(in) ==
    (IF in.docsLoad THEN {"docs"} ELSE {}) \cup (IF in.html # "binary" THEN {"html"} ELSE {})

IngestStatus(in) ==
    CASE DocFault(in) \/ HtmlFault(in) -> 500
      [] load_documents(in) = {} -> 400
      [] in.fault # "none" -> 500
      [] OTHER -> 200

\* variant: the folder is created before the extracted content is checked
ChromaPathCreated_early(in) ==
    /\ HtmlSaved(in)
    /\ in.fault # "mkdir"

\* generate_chroma_path is reached after the 400 check, and creates the
\* folder unless os.makedirs itself raises
ChromaPathCreated(in) ==
    /\ HtmlSaved(in)
    /\ load_documents(in) # {}
    /\ in.fault # "mkdir"

RegisterReached(in) ==
    ChromaPathCreated(in) /\ in.fault # "chroma"

\* the finally block: only temp_paths are removed, unless os.remove raises
CleanupTemp(files, r, in) ==
    (files \cup {<<r, k>> : k \in DocsWritten(in)})
        \ {<<r, k>> : k \in TempPaths(in) \ in.stuck}

\* Fields a run never reads are fixed, so that no two inputs describe the
\* same run: a request that fails while saving loads nothing.
FailAts(fault, n) ==
    IF fault \in {"doc_open", "doc_copy"} THEN 1..n ELSE {1}

SavedBefore(fault, n, failAt) ==
    IF fault \in {"doc_open", "doc_copy"} THEN 1..(failAt - 1) ELSE 1..n

LoadChoices(fault) ==
    IF fault \in {"doc_open", "doc_copy", "html_open", "html_copy"} THEN {TRUE} ELSE BOOLEAN

HtmlChoices(fault) ==
    IF fault \in {"doc_open", "doc_copy", "html_open"} THEN {"text"} ELSE HtmlKinds

PartialChoices(fault) ==
    IF fault = "html_copy" THEN {"empty", "same"} ELSE {"same"}

IngestInputs ==
    UNION { UNION { UNION {
        { [n |-> n, docsLoad |-> d, html |-> h, fault |-> f, failAt |-> a,
           partial |-> p, stuck |-> st] :
            d \in LoadChoices(f), h \in HtmlChoices(f), p \in PartialChoices(f),
            st \in SUBSET SavedBefore(f, n, a) }
        : a \in FailAts(f, n) } : n \in 1..MaxDocs } : f \in IngestFaults }

IngestDetail(in) ==
    CASE IngestStatus(in) = 200 -> "Knowledge Base built"
      [] IngestStatus(in) = 400 -> "No content extracted from uploaded files."
      [] OTHER -> "server error"

\* the number of operations that raise while the request is handled
IngestFaultCount(in) ==
    (IF in.fault # "none" THEN 1 ELSE 0) + Cardinality(in.stuck)

ingest_knowledge_base(in) ==
    LET r == nreq + 1
        ok == IngestStatus(in) = 200
    IN /\ nreq < MaxIngests
       /\ nreq' = r
       /\ tempFiles' = CleanupTemp(tempFiles, r, in)
       /\ storedFiles' =
            IF HtmlWritten(in)
            THEN Put(storedFiles, r, IF in.partial = "empty" THEN "empty" ELSE in.html)
            ELSE storedFiles
       /\ dirs' = IF ChromaPathCreated(in) THEN dirs \cup {r} ELSE dirs
       /\ projectsFile' =
            IF RegisterReached(in)
            THEN register_db_entry(projectsFile, r, r, r, in.fault)
            ELSE projectsFile
       /\ resp' = [op |-> "ingest", status |-> IngestStatus(in),
                   detail |-> IngestDetail(in),
                   db_id |-> IF ok THEN r ELSE NoneDb,
                   persist_dir |-> IF ok THEN r ELSE 0]

\* ------------------------------------------------------------------------
\* DELETE /databases/{db_id}
\* ------------------------------------------------------------------------
\* shutil.rmtree is called only when the folder exists; when it raises the
\* folder is still there and the handler answers 500 before the registry
\* is touched.
DeleteStatus(file, db_id, rmFails, fault) ==
    CASE ~HasEntry(file, db_id) -> 404
      [] rmFails /\ get_db_entry(file, db_id).persist_dir \in dirs -> 500
      [] fault # "none" -> 500
      [] OTHER -> 200

DeleteDirs(file, db_id, rmFails) ==
    IF HasEntry(file, db_id) /\ ~rmFails
    THEN dirs \ {get_db_entry(file, db_id).persist_dir}
    ELSE dirs

\* variant: the registry entry is removed although rmtree raised
DeleteRegistry_always(file, db_id, rmFails, fault) ==
    IF HasEntry(file, db_id)
    THEN delete_db_entry(file, db_id, fault)
    ELSE file

DeleteRegistry(file, db_id, rmFails, fault) ==
    IF HasEntry(file, db_id)
       /\ ~(rmFails /\ get_db_entry(file, db_id).persist_dir \in dirs)
    THEN delete_db_entry(file, db_id, fault)
    ELSE file

DeleteFaultCount(rmFails, fault) ==
    (IF rmFails THEN 1 ELSE 0) + (IF fault # "none" THEN 1 ELSE 0)

delete_database(db_id, rmFails, fault) ==
    /\ dirs' = DeleteDirs(projectsFile, db_id, rmFails)
    /\ projectsFile' = DeleteRegistry(projectsFile, db_id, rmFails, fault)
    /\ resp' = [op |-> "delete",
                status |-> DeleteStatus(projectsFile, db_id, rmFails, fault),
                detail |-> CASE DeleteStatus(projectsFile, db_id, rmFails, fault) = 404
                                    -> "DB not found"
                             [] DeleteStatus(projectsFile, db_id, rmFails, fault) = 200
                                    -> "Deleted DB"
                             [] rmFails -> "Failed to delete DB folder"
                             [] OTHER -> "server error",
                db_id |-> db_id, persist_dir |-> 0]
    /\ UNCHANGED <<tempFiles, storedFiles, nreq>>

\* ------------------------------------------------------------------------
\* POST /query
\* ------------------------------------------------------------------------
\* variant: the persist directory is not checked before Chroma is opened
QueryStatus_unchecked(file, db_id, searchFails) ==
    CASE ~HasEntry(file, db_id) -> 404
      [] searchFails -> 500
      [] OTHER -> 200

QueryStatus(file, db_id, searchFails) ==
    CASE ~HasEntry(file, db_id) -> 404
      [] get_db_entry(file, db_id).persist_dir \notin dirs -> 404
      [] searchFails -> 500
      [] OTHER -> 200

QueryDetail(file, db_id, searchFails) ==
    CASE ~HasEntry(file, db_id) -> "DB not found"
      [] get_db_entry(file, db_id).persist_dir \notin dirs
            -> "DB persist directory not found on disk"
      [] searchFails -> "search error"
      [] OTHER -> "results"

query_database(db_id, searchFails) ==
    /\ resp' = [op |-> "query",
                status |-> QueryStatus(projectsFile, db_id, searchFails),
                detail |-> QueryDetail(projectsFile, db_id, searchFails),
                db_id |-> db_id, persist_dir |-> 0]
    /\ UNCHANGED <<projectsFile, dirs, tempFiles, storedFiles, nreq>>

\* ------------------------------------------------------------------------
\* agent.py
\* ------------------------------------------------------------------------
StoredFilesDirExists == TRUE

\* variant: an entry that cannot be read is replaced by a default folder
load_chroma_default(file, db_id, chromaFails) ==
    IF chromaFails THEN "raise" ELSE "ok"

\* load_db_info opens projects.json without a guard and load_chroma indexes
\* the result: a missing or unreadable file, an unknown db_id or a failing
\* Chroma constructor all raise.
load_chroma(file, db_id, chromaFails) ==
    IF file.kind # "ok" THEN "raise"
    ELSE IF db_id \notin DOMAIN file.index THEN "raise"
    ELSE IF chromaFails THEN "raise"
    ELSE "ok"

\* content of files[0] of glob("stored_files/*.html"); pick is the file the
\* glob lists first.  "None" is Python's None, "empty" the empty string.
get_stored_html_details(dirExists, stored, pick) ==
    IF ~dirExists THEN "None"
    ELSE IF DOMAIN stored = {} THEN "None"
    ELSE IF stored[pick] = "binary" THEN "None"
    ELSE stored[pick]

\* re.findall(pattern, None) raises TypeError
extract_selectors(html_content) ==
    IF html_content = "None" THEN "raise" ELSE "selectors"

\* What the libraries do in one agent call: the Chroma constructor or the
\* similarity search raises, the API key is missing or the model call raises,
\* and what the model's answer parses to.
AgentEnvs ==
    [chromaFails : BOOLEAN, searchFails : BOOLEAN, llm : {"ok", "error", "no_key"}]

\* what clean_and_parse_json makes of the model's answer: a list of test
\* cases, an empty list, JSON of another shape, or a dict with "error"
ParsedAnswers == {"cases", "empty", "malformed", "error"}

generate_test_cases(file, db_id, env, answer) ==
    LET r == [fn |-> "generate_test_cases", db_id |-> db_id, html |-> "None"]
    IN IF load_chroma(file, db_id, env.chromaFails) = "raise"
       THEN r @@ [ret |-> "error: DB not found", search |-> FALSE, llm |-> FALSE]
       ELSE IF env.searchFails
       THEN r @@ [ret |-> "raise", search |-> TRUE, llm |-> FALSE]
       ELSE IF env.llm = "no_key"
       THEN r @@ [ret |-> "raise", search |-> TRUE, llm |-> FALSE]
       ELSE IF env.llm = "error"
       THEN r @@ [ret |-> "raise", search |-> TRUE, llm |-> TRUE]
       ELSE r @@ [ret |-> answer, search |-> TRUE, llm |-> TRUE]

generate_selenium_script(file, stored, pick, db_id, env) ==
    LET html_content == get_stored_html_details(StoredFilesDirExists, stored, pick)
        r == [fn |-> "generate_selenium_script", db_id |-> db_id, html |-> html_content]
        searched == load_chroma(file, db_id, env.chromaFails) = "ok"
    IN IF extract_selectors(html_content) = "raise"
       THEN r @@ [ret |-> "raise", search |-> FALSE, llm |-> FALSE]
       ELSE IF html_content = "empty"
       THEN r @@ [ret |-> "# No HTML found.", search |-> FALSE, llm |-> FALSE]
       ELSE IF env.llm = "no_key"
       THEN r @@ [ret |-> "raise", search |-> searched, llm |-> FALSE]
       ELSE IF env.llm = "error"
       THEN r @@ [ret |-> "# Error: ", search |-> searched, llm |-> TRUE]
       ELSE r @@ [ret |-> "script", search |-> searched, llm |-> TRUE]

\* ------------------------------------------------------------------------
\* app.py: one action is one run of the script, top to bottom
\* ------------------------------------------------------------------------
\* r = NoResp stands for resp = None (requests.post raised).  A response
\* with status >= 400 is falsy and is handled like None; the db_id is taken
\* from a status-200 response only.
\* variant: the db_id field is taken from a response of any status
SelectedAfterIngest_anyStatus(sel, r) ==
    IF r.op # "none" THEN r.db_id ELSE sel

SelectedAfterIngest(sel, r) ==
    IF r.op # "none" /\ r.status = 200 /\ r.db_id # NoneDb THEN r.db_id ELSE sel

\* variant: the form is rendered without the selected_db check
Phase2View_unguarded(sel) == "form"

Phase2View(sel) ==
    IF sel = NoneDb THEN "No Knowledge Base available for this session" ELSE "form"

\* rendering the Detailed View of a plan whose items are not dicts raises,
\* and the run stops before the Phase 3 tab
Phase2Raises(plan, callRaised) == callRaised \/ plan = "malformed"

\* variant: the test_plan check is missing
Phase3View_noPlanCheck(plan, sel, phase2Raised) ==
    IF phase2Raised THEN "not rendered"
    ELSE IF sel = NoneDb THEN "No Knowledge Base selected"
    ELSE "form"

Phase3View(plan, sel, phase2Raised) ==
    IF phase2Raised THEN "not rendered"
    ELSE IF plan \in {"None", "empty"} THEN "Generate test cases in Phase 2 first"
    ELSE IF sel = NoneDb THEN "No Knowledge Base selected"
    ELSE "form"

Render(sel, plan, callRaised) ==
    /\ phase2View' = Phase2View(sel)
    /\ phase3View' = Phase3View(plan, sel, Phase2Raises(plan, callRaised))

\* ------------------------------------------------------------------------
\* Initial state: the backend module has created its directories, nothing
\* is registered, and the session has rendered the page once.
\* ------------------------------------------------------------------------
Start(budget) ==
    /\ projectsFile = [kind |-> "missing", index |-> EmptyIndex]
    /\ dirs = {}
    /\ tempFiles = {}
    /\ storedFiles = EmptyIndex
    /\ nreq = 0
    /\ faultsLeft = budget
    /\ resp = NoResp
    /\ selected_db = NoneDb
    /\ test_plan = "None"
    /\ phase2View = Phase2View(NoneDb)
    /\ phase3View = Phase3View("None", NoneDb, FALSE)
    /\ agentRes = NoAgentRes
    /\ sessionDbs = {}
    /\ planOk = FALSE
    /\ calls = {}
    /\ done = NoneDone
    /\ html_page = NoHtml
    /\ analysis = NoAnalysis

\* the backend, whose file and library calls may raise MaxFaults times
Init == Start(MaxFaults)

\* ---- requests of other clients of the backend ----
IngestRequest ==
    \E in \in IngestInputs :
        /\ IngestFaultCount(in) <= faultsLeft
        /\ faultsLeft' = faultsLeft - IngestFaultCount(in)
        /\ ingest_knowledge_base(in)
        /\ agentRes' = NoAgentRes
        /\ UNCHANGED <<sessionVars, raceVars, htmlVars>>

DeleteRequest ==
    \E db_id \in DbIds, rmFails \in BOOLEAN, fault \in SaveFaults :
        /\ DeleteFaultCount(rmFails, fault) <= faultsLeft
        /\ faultsLeft' = faultsLeft - DeleteFaultCount(rmFails, fault)
        /\ delete_database(db_id, rmFails, fault)
        /\ agentRes' = NoAgentRes
        /\ UNCHANGED <<sessionVars, raceVars, htmlVars>>

QueryRequest ==
    \E db_id \in DbIds, searchFails \in BOOLEAN :
        /\ (IF searchFails THEN 1 ELSE 0) <= faultsLeft
        /\ faultsLeft' = faultsLeft - (IF searchFails THEN 1 ELSE 0)
        /\ query_database(db_id, searchFails)
        /\ agentRes' = NoAgentRes
        /\ UNCHANGED <<sessionVars, raceVars, htmlVars>>

\* ---- "Build Brain": the widget checks, POST /ingest, the response ----
\* A pasted page is an HTML upload of kind "text".  requests.post raises
\* when the backend is down (the request is not handled) or when the 120 s
\* timeout expires (the request is handled, the response is not seen).
BuildBrainResponse(r) ==
    /\ selected_db' = SelectedAfterIngest(selected_db, r)
    /\ sessionDbs' = IF r.op # "none" /\ r.status = 200
                     THEN sessionDbs \cup {r.db_id} ELSE sessionDbs
    /\ Render(SelectedAfterIngest(selected_db, r), test_plan, FALSE)

BuildBrain ==
    /\ \/ \E uploaded_docs \in BOOLEAN, html_available \in BOOLEAN :
            /\ ~uploaded_docs \/ ~html_available
            /\ Render(selected_db, test_plan, FALSE)
            /\ resp' = NoResp
            /\ UNCHANGED <<selected_db, sessionDbs>>
            /\ UNCHANGED <<projectsFile, dirs, tempFiles, storedFiles, nreq, faultsLeft>>
       \/ /\ resp' = NoResp
          /\ UNCHANGED <<projectsFile, dirs, tempFiles, storedFiles, nreq, faultsLeft>>
          /\ BuildBrainResponse(NoResp)
       \/ \E in \in IngestInputs, timeout \in BOOLEAN :
            /\ IngestFaultCount(in) <= faultsLeft
            /\ faultsLeft' = faultsLeft - IngestFaultCount(in)
            /\ ingest_knowledge_base(in)
            /\ BuildBrainResponse(IF timeout THEN NoResp ELSE resp')
    /\ agentRes' = NoAgentRes
    /\ UNCHANGED <<test_plan, planOk, raceVars, htmlVars>>

\* ---- "Generate Plan": the button exists when Phase 2 rendered the form ----
PlanAfter(plan, result) ==
    IF result.ret \in {"raise", "error: DB not found", "error"} THEN plan
    ELSE result.ret

GeneratePlan ==
    \E env \in AgentEnvs, answer \in ParsedAnswers :
        LET result == generate_test_cases(projectsFile, selected_db, env, answer)
        IN /\ phase2View = "form"
           /\ (result.ret # answer => answer = "cases")
           /\ agentRes' = result
           /\ test_plan' = PlanAfter(test_plan, result)
           /\ planOk' = (planOk \/ result.ret \in {"cases", "empty", "malformed"})
           /\ Render(selected_db, PlanAfter(test_plan, result), result.ret = "raise")
           /\ resp' = NoResp
           /\ UNCHANGED <<selected_db, sessionDbs, raceVars, htmlVars>>
           /\ UNCHANGED <<projectsFile, dirs, tempFiles, storedFiles, nreq, faultsLeft>>

\* ---- "Generate Selenium Code": the button exists when Phase 3 rendered it ----
GenerateSelenium ==
    \E env \in AgentEnvs, pick \in DOMAIN storedFiles \cup {0} :
        /\ (DOMAIN storedFiles # {} => pick \in DOMAIN storedFiles)
        /\ phase3View = "form"
        /\ agentRes' = generate_selenium_script(projectsFile, storedFiles, pick,
                                                selected_db, env)
        /\ Render(selected_db, test_plan, FALSE)
        /\ resp' = NoResp
        /\ UNCHANGED <<selected_db, test_plan, sessionDbs, planOk, raceVars, htmlVars>>
        /\ UNCHANGED <<projectsFile, dirs, tempFiles, storedFiles, nreq, faultsLeft>>

\* The backend serving the requests of any client.
Next ==
    \/ IngestRequest
    \/ DeleteRequest
    \/ QueryRequest

Spec == Init /\ [][Next]_vars

\* One Streamlit session and a client that deletes databases.  A database
\* the session has not been told of is one whose /ingest response timed out.
NextUI ==
    \/ BuildBrain
    \/ GeneratePlan
    \/ GenerateSelenium
    \/ DeleteRequest

\* In the session's specification the backend's own I/O does not fail: the
\* session tells a 500 from a 400 no more than the code does (app.py:100).
\* What it can tell apart is modelled: no response, 400 and 200.
InitUI == Start(0)

SpecUI == InitUI /\ [][NextUI]_vars

\* ---- the agent functions called directly (agents/test_case.py) ----
\* Any disk the backend can leave behind: projects.json missing, unreadable
\* or holding any set of entries, each registered database with its HTML
\* file in stored_files/, and HTML files of requests that failed later.
HtmlStores(registered) ==
    UNION { [S -> HtmlKinds] : S \in {T \in SUBSET DbIds : registered \subseteq T} }

IndexOf(registered) ==
    [k \in registered |-> [id |-> k, persist_dir |-> k, source_html |-> k]]

StartAgent ==
    \E kind \in {"missing", "ok", "corrupt"}, registered \in SUBSET DbIds :
        /\ kind # "ok" => registered = {}
        /\ projectsFile = [kind |-> kind, index |-> IndexOf(registered)]
        /\ dirs = registered
        /\ tempFiles = {}
        /\ storedFiles \in HtmlStores(registered)
        /\ nreq = MaxIngests
        /\ faultsLeft = 0
        /\ resp = NoResp
        /\ selected_db = NoneDb
        /\ test_plan = "None"
        /\ phase2View = Phase2View(NoneDb)
        /\ phase3View = Phase3View("None", NoneDb, FALSE)
        /\ agentRes = NoAgentRes
        /\ sessionDbs = {}
        /\ planOk = FALSE
        /\ calls = {}
        /\ done = NoneDone
        /\ html_page = NoHtml
        /\ analysis = NoAnalysis

CallGenerateTestCases ==
    \E db_id \in DbIds \cup {NoneDb}, env \in AgentEnvs, answer \in ParsedAnswers :
        LET result == generate_test_cases(projectsFile, db_id, env, answer)
        IN /\ (result.ret # answer => answer = "cases")
           /\ agentRes' = result
           /\ UNCHANGED <<backendVars, sessionVars, raceVars, htmlVars>>

CallGenerateSelenium ==
    \E db_id \in DbIds \cup {NoneDb}, env \in AgentEnvs, pick \in DOMAIN storedFiles \cup {0} :
        /\ (DOMAIN storedFiles # {} => pick \in DOMAIN storedFiles)
        /\ agentRes' = generate_selenium_script(projectsFile, storedFiles, pick,
                                                db_id, env)
        /\ UNCHANGED <<backendVars, sessionVars, raceVars, htmlVars>>

NextAgent ==
    \/ CallGenerateTestCases
    \/ CallGenerateSelenium

SpecAgent == StartAgent /\ [][NextAgent]_vars

\* ---- overlapping requests: the registry functions statement by statement ----
\* /ingest is an async def and runs on the event loop, one at a time;
\* DELETE is a def and runs on a worker thread, so a delete overlaps an
\* ingest or another delete.  register_db_entry and delete_db_entry load
\* the index, change their copy and save it; _save_projects_index opens
\* the file for writing, which truncates it, and then dumps.  No lock is
\* taken.  Each call works on a db_id of its own.
StartRace ==
    \E k \in 0..MaxIngests :
        /\ projectsFile = IF k = 0 THEN [kind |-> "missing", index |-> EmptyIndex]
                          ELSE [kind |-> "ok", index |-> IndexOf(1..k)]
        /\ dirs = 1..k
        /\ tempFiles = {}
        /\ storedFiles = [i \in 1..k |-> "text"]
        /\ nreq = k
        /\ faultsLeft = 0
        /\ resp = NoResp
        /\ selected_db = NoneDb
        /\ test_plan = "None"
        /\ phase2View = Phase2View(NoneDb)
        /\ phase3View = Phase3View("None", NoneDb, FALSE)
        /\ agentRes = NoAgentRes
        /\ sessionDbs = {}
        /\ planOk = FALSE
        /\ calls = {}
        /\ done = NoneDone
        /\ html_page = NoHtml
        /\ analysis = NoAnalysis

\* /ingest up to the register_db_entry call (main.py:176-205)
RaceIngestStart ==
    LET r == nreq + 1
    IN /\ Cardinality(calls) < MaxCalls
       /\ nreq < MaxIngests
       /\ \A c \in calls : c.op # "register"
       /\ nreq' = r
       /\ tempFiles' = tempFiles \cup {<<r, 1>>}
       /\ storedFiles' = Put(storedFiles, r, "text")
       /\ dirs' = dirs \cup {r}
       /\ calls' = calls \cup {[op |-> "register", db_id |-> r, pc |-> "load",
                                 index |-> EmptyIndex]}
       /\ resp' = NoResp
       /\ UNCHANGED <<projectsFile, faultsLeft, done, agentRes, sessionVars, htmlVars>>

\* DELETE up to the delete_db_entry call (main.py:247-257)
RaceDeleteStart ==
    \E db_id \in 1..nreq :
        /\ Cardinality(calls) < MaxCalls
        /\ \A c \in calls : c.db_id # db_id
        /\ db_id \notin done.deleted
        /\ HasEntry(projectsFile, db_id)
        /\ dirs' = dirs \ {get_db_entry(projectsFile, db_id).persist_dir}
        /\ calls' = calls \cup {[op |-> "delete", db_id |-> db_id, pc |-> "load",
                                  index |-> EmptyIndex]}
        /\ resp' = NoResp
        /\ UNCHANGED <<projectsFile, tempFiles, storedFiles, nreq, faultsLeft,
                       done, agentRes, sessionVars, htmlVars>>

RaceResponse(c) ==
    IF c.op = "register"
    THEN [op |-> "ingest", status |-> 200, detail |-> "Knowledge Base built",
          db_id |-> c.db_id, persist_dir |-> c.db_id]
    ELSE [op |-> "delete", status |-> 200, detail |-> "Deleted DB",
          db_id |-> c.db_id, persist_dir |-> 0]

\* the call returns and its handler answers; /ingest removes its temp file
RaceReturn(c) ==
    /\ calls' = calls \ {c}
    /\ done' = IF c.op = "register"
               THEN [done EXCEPT !.registered = @ \cup {c.db_id}]
               ELSE [done EXCEPT !.deleted = @ \cup {c.db_id}]
    /\ tempFiles' = IF c.op = "register" THEN tempFiles \ {<<c.db_id, 1>>} ELSE tempFiles
    /\ resp' = RaceResponse(c)

\* index = _load_projects_index(), then the change of the local copy; a
\* delete_db_entry that does not find its key returns without saving
RaceLoad ==
    \E c \in calls :
        LET index == _load_projects_index(projectsFile)
            entry == [id |-> c.db_id, persist_dir |-> c.db_id, source_html |-> c.db_id]
        IN /\ c.pc = "load"
           /\ IF c.op = "register"
              THEN /\ calls' = (calls \ {c}) \cup
                            {[c EXCEPT !.pc = "open", !.index = Put(index, c.db_id, entry)]}
                   /\ resp' = NoResp
                   /\ UNCHANGED <<done, tempFiles>>
              ELSE IF c.db_id \in DOMAIN index
              THEN /\ calls' = (calls \ {c}) \cup
                            {[c EXCEPT !.pc = "open", !.index = Pop(index, c.db_id)]}
                   /\ resp' = NoResp
                   /\ UNCHANGED <<done, tempFiles>>
              ELSE RaceReturn(c)
           /\ UNCHANGED <<projectsFile, dirs, storedFiles, nreq, faultsLeft,
                          agentRes, sessionVars, htmlVars>>

\* open(PROJECTS_INDEX, "w"): the file is empty until the dump
RaceOpen ==
    \E c \in calls :
        /\ c.pc = "open"
        /\ projectsFile' = _save_projects_index(projectsFile, c.index, "index_dump")
        /\ calls' = (calls \ {c}) \cup {[c EXCEPT !.pc = "dump"]}
        /\ resp' = NoResp
        /\ UNCHANGED <<dirs, tempFiles, storedFiles, nreq, faultsLeft, done,
                       agentRes, sessionVars, htmlVars>>

\* json.dump and the close of the file
RaceDump ==
    \E c \in calls :
        /\ c.pc = "dump"
        /\ projectsFile' = _save_projects_index(projectsFile, c.index, "none")
        /\ RaceReturn(c)
        /\ UNCHANGED <<dirs, storedFiles, nreq, faultsLeft, agentRes, sessionVars, htmlVars>>

NextRace ==
    \/ RaceIngestStart
    \/ RaceDeleteStart
    \/ RaceLoad
    \/ RaceOpen
    \/ RaceDump

SpecRace == StartRace /\ [][NextRace]_vars

\* ---- zzz/zzz2.py: analyze_html_structure ----
\* A page is a sequence of elements, each with an id attribute and a style
\* attribute as it is spelled in the markup, and a script that may name
\* 'cart-summary'.  The function only searches the text of the page.
ElemIds == {"cart-summary", "discount-section", ""}
ElemStyles == {"display: none;", "display:none", ""}
Elems == [id : ElemIds, style : ElemStyles]
VisibilityRule == "VISIBILITY RULE: #cart-summary hidden until item added to cart"

Pages ==
    [elems : UNION {[1..n -> Elems] : n \in 0..MaxElems}, script : BOOLEAN]

\* re.finditer(r'<(\w+)[^>]*style="[^"]*display:\s*none[^"]*"...'): every
\* element whose style holds display:none, with or without the space
HiddenElements(html_content) ==
    {i \in DOMAIN html_content.elems :
        html_content.elems[i].style \in {"display: none;", "display:none"}}

\* 'style="display: none;"' in html_content
HasHiddenStyleText(html_content) ==
    \E i \in DOMAIN html_content.elems : html_content.elems[i].style = "display: none;"

\* 'cart-summary' in html_content
HasCartSummaryText(html_content) ==
    \/ html_content.script
    \/ \E i \in DOMAIN html_content.elems : html_content.elems[i].id = "cart-summary"

analyze_html_structure(html_content) ==
    [fn |-> "analyze_html_structure",
     hidden_elements |-> HiddenElements(html_content),
     conditional_visibility |->
        IF HasHiddenStyleText(html_content) /\ HasCartSummaryText(html_content)
        THEN {VisibilityRule} ELSE {}]

StartHtml ==
    /\ projectsFile = [kind |-> "missing", index |-> EmptyIndex]
    /\ dirs = {}
    /\ tempFiles = {}
    /\ storedFiles = EmptyIndex
    /\ nreq = 0
    /\ faultsLeft = 0
    /\ resp = NoResp
    /\ selected_db = NoneDb
    /\ test_plan = "None"
    /\ phase2View = Phase2View(NoneDb)
    /\ phase3View = Phase3View("None", NoneDb, FALSE)
    /\ agentRes = NoAgentRes
    /\ sessionDbs = {}
    /\ planOk = FALSE
    /\ calls = {}
    /\ done = NoneDone
    /\ html_page \in Pages
    /\ analysis = NoAnalysis

AnalyzeHtml ==
    /\ analysis = NoAnalysis
    /\ analysis' = analyze_html_structure(html_page)
    /\ UNCHANGED <<backendVars, uiVars, raceVars, html_page>>

NextHtml == AnalyzeHtml

SpecHtml == StartHtml /\ [][NextHtml]_vars

\* ------------------------------------------------------------------------
\* Properties
\* ------------------------------------------------------------------------
Registry(file) == _load_projects_index(file)

\* C1: every /ingest that answers 200 has created a persist directory that
\* did not exist before and has added exactly one registry entry, whose id
\* and persist_dir are the ones in the response; every entry registered
\* before the request is still registered, unchanged.
C1_IngestAddsOneEntry ==
    [][(resp'.op = "ingest" /\ resp'.status = 200) =>
        LET old == Registry(projectsFile)
            new == Registry(projectsFile')
            id == resp'.db_id
        IN /\ resp'.persist_dir \notin dirs
           /\ resp'.persist_dir \in dirs'
           /\ id \notin DOMAIN old
           /\ DOMAIN new = DOMAIN old \cup {id}
           /\ new[id].id = id
           /\ new[id].persist_dir = resp'.persist_dir
           /\ \A k \in DOMAIN old : new[k] = old[k]]_vars

C1_Witness ==
    /\ resp.op = "ingest" /\ resp.status = 200
    /\ resp.db_id \in DOMAIN Registry(projectsFile)
    /\ Cardinality(DOMAIN Registry(projectsFile)) >= 2

\* C2: selected_db is None or a db_id returned to this session by a
\* status-200 /ingest response, whatever else the registry holds, and once
\* set it is never reset to None.
C2_SelectedDbFromThisSession ==
    /\ [](selected_db \in sessionDbs \cup {NoneDb})
    /\ [][selected_db # NoneDb => selected_db' # NoneDb]_vars

C2_Witness ==
    /\ selected_db # NoneDb
    /\ \E id \in DOMAIN Registry(projectsFile) : id \notin sessionDbs

\* C3: generate_selenium_script is called only when test_plan is non-empty
\* and selected_db is set; the call comes after a generate_test_cases call
\* that returned no error, which comes after a successful ingest of the
\* session.
C3_PhasesInOrder ==
    /\ [][agentRes'.fn = "generate_selenium_script" =>
            /\ test_plan \notin {"None", "empty"}
            /\ selected_db # NoneDb
            /\ planOk
            /\ sessionDbs # {}]_vars
    /\ [][(planOk' /\ ~planOk) => sessionDbs # {}]_vars

C3_Witness ==
    /\ agentRes.fn = "generate_selenium_script"
    /\ agentRes.ret = "script"

\* C4: generate_test_cases is called only when selected_db is set; as long
\* as no ingest of the session has succeeded, Phase 2 shows the "No
\* Knowledge Base available for this session" error instead of the form.
C4_PlanNeedsSelectedDb ==
    /\ [][agentRes'.fn = "generate_test_cases" => selected_db # NoneDb]_vars
    /\ [](sessionDbs = {} =>
            phase2View = "No Knowledge Base available for this session")

C4_Witness ==
    /\ agentRes.fn = "generate_test_cases"
    /\ selected_db # NoneDb

\* C5 (as claimed): when an /ingest request finishes, with any status, no
\* temporary document it wrote is left in temp_data, and the HTML file it
\* saved is in stored_files.
C5_TempFilesRemoved ==
    [][resp'.op = "ingest" =>
        /\ tempFiles' \subseteq tempFiles
        /\ (resp'.status \in {200, 400} => nreq' \in DOMAIN storedFiles')
        /\ \A f \in DOMAIN storedFiles : f \in DOMAIN storedFiles']_vars

\* C6: a DELETE that answers 200 leaves the registry without the db_id and
\* the disk without its persist directory, every other entry unchanged; for
\* an unregistered db_id it answers 404 "DB not found" and changes neither.
C6_DeleteRemovesOnlyThatDb ==
    [][resp'.op = "delete" =>
        LET old == Registry(projectsFile)
            new == Registry(projectsFile')
            id == resp'.db_id
        IN /\ resp'.status = 200 =>
                /\ id \in DOMAIN old
                /\ id \notin DOMAIN new
                /\ old[id].persist_dir \notin dirs'
                /\ \A k \in DOMAIN old \ {id} : k \in DOMAIN new /\ new[k] = old[k]
           /\ id \notin DOMAIN old =>
                /\ resp'.status = 404
                /\ resp'.detail = "DB not found"
                /\ projectsFile' = projectsFile
                /\ dirs' = dirs]_vars

C6_Witness ==
    /\ resp.op = "delete" /\ resp.status = 200
    /\ DOMAIN Registry(projectsFile) # {}

\* C7: when the persist directory of a registered db_id is still on disk
\* after a DELETE (its removal failed), the request answered 500 and the
\* registry entry of that db_id is still present.
C7_DirectoryBeforeEntry ==
    [][resp'.op = "delete" =>
        LET old == Registry(projectsFile)
            new == Registry(projectsFile')
            id == resp'.db_id
        IN (id \in DOMAIN old /\ old[id].persist_dir \in dirs') =>
                /\ resp'.status = 500
                /\ id \in DOMAIN new
                /\ new[id] = old[id]]_vars

C7_Witness ==
    /\ resp.op = "delete" /\ resp.status = 500
    /\ resp.detail = "Failed to delete DB folder"
    /\ resp.db_id \in DOMAIN Registry(projectsFile)

\* C8: an /ingest that answers 400 answers "No content extracted from
\* uploaded files.", and that request creates no persist directory and
\* adds no registry entry.
C8_NoContentNoDb ==
    [][(resp'.op = "ingest" /\ resp'.status = 400) =>
        /\ resp'.detail = "No content extracted from uploaded files."
        /\ dirs' = dirs
        /\ projectsFile' = projectsFile]_vars

C8_Witness ==
    /\ resp.op = "ingest" /\ resp.status = 400
    /\ nreq \in DOMAIN storedFiles

\* C9: /query answers 404 "DB not found" for an unregistered db_id and 404
\* "DB persist directory not found on disk" for a registered db_id whose
\* directory is missing; no outcome changes the registry or the directories.
C9_QueryNotFound ==
    [][resp'.op = "query" =>
        LET reg == Registry(projectsFile)
            id == resp'.db_id
        IN /\ id \notin DOMAIN reg =>
                resp'.status = 404 /\ resp'.detail = "DB not found"
           /\ (id \in DOMAIN reg /\ reg[id].persist_dir \notin dirs) =>
                /\ resp'.status = 404
                /\ resp'.detail = "DB persist directory not found on disk"
           /\ projectsFile' = projectsFile
           /\ dirs' = dirs]_vars

C9_Witness ==
    /\ resp.op = "query"
    /\ resp.detail = "DB persist directory not found on disk"

\* C10 (as claimed): when get_stored_html_details yields no HTML content,
\* generate_selenium_script returns "# No HTML found." without raising and
\* without a vector-store or language-model call.
C10_NoHtmlFound ==
    (agentRes.fn = "generate_selenium_script" /\ agentRes.html \in {"None", "empty"}) =>
        /\ agentRes.ret = "# No HTML found."
        /\ ~agentRes.search
        /\ ~agentRes.llm

\* C11: generate_test_cases returns {"error": "DB not found"} whenever the
\* db_id cannot be loaded (it is absent from projects.json, or projects.json
\* is missing or unreadable), and then makes no similarity search and no
\* language-model call.
C11_DbNotFound ==
    (/\ agentRes.fn = "generate_test_cases"
     /\ \/ projectsFile.kind # "ok"
        \/ agentRes.db_id \notin DOMAIN projectsFile.index) =>
        /\ agentRes.ret = "error: DB not found"
        /\ ~agentRes.search
        /\ ~agentRes.llm

C11_Witness ==
    /\ agentRes.fn = "generate_test_cases"
    /\ agentRes.ret = "error: DB not found"
    /\ projectsFile.kind = "corrupt"
    /\ agentRes.db_id \in DOMAIN storedFiles

\* C12 (as claimed): when register_db_entry and delete_db_entry calls on
\* different db_ids overlap and all have completed, projectsFile holds every
\* entry registered and not deleted, and no deleted entry.
C12_RegistryUpdatesAtomic ==
    calls = {} =>
        /\ \A id \in done.registered \ done.deleted : id \in DOMAIN Registry(projectsFile)
        /\ \A id \in done.deleted : id \notin DOMAIN Registry(projectsFile)

\* C13 (as claimed): when the stored HTML has content that can be read,
\* generate_selenium_script never raises: whatever the vector store and the
\* language model do, it returns a script, "# No HTML found." or a string
\* that starts with "# Error: ".
C13_SeleniumNeverRaises ==
    (agentRes.fn = "generate_selenium_script" /\ agentRes.html \in {"text", "empty"}) =>
        agentRes.ret \in {"script", "# No HTML found.", "# Error: "}

\* C14 (as claimed): analyze_html_structure gives the rule "VISIBILITY RULE:
\* #cart-summary hidden until item added to cart" only for a page in which
\* the element with id cart-summary is itself hidden by display:none.
C14_CartSummaryRule ==
    (analysis.fn = "analyze_html_structure"
        /\ VisibilityRule \in analysis.conditional_visibility) =>
        \E i \in HiddenElements(html_page) : html_page.elems[i].id = "cart-summary"

====
